---- MODULE Spec2Model ----
(***************************************************************************)
(* Model of the async modal provider (AsyncModalProvider / useAsyncModal). *)
(*                                                                         *)
(* JavaScript values are modelled as strings ("undefined", "true", ...).   *)
(* An optional record (T | null) is a sequence of length at most one:      *)
(* << >> is null, << r >> is the record r.  A request is numbered by the   *)
(* order of the showModal calls; the number stands for the identity of the *)
(* promise created by that call and of its resolve / reject pair.          *)
(***************************************************************************)
EXTENDS Integers, Sequences, FiniteSets, TLC

\* ---- bounds -------------------------------------------------------------
MaxRequests == 3        \* showModal calls in one run
MaxCalls == 2           \* saturation of the resolve / reject call counters

\* ---- the universe of inputs ---------------------------------------------
Undefined == "undefined"
Providers == {1, 2}                     \* provider 2 is mounted inside provider 1
Consumers == {"outside", "child1", "child2"}
Modals == {"ModalA", "ModalB"}
DismissibleOpts == {Undefined, "true", "false"}
DataOpts == {Undefined, "d1", "d2"}
Results == {"ok"}
Requests == 1..MaxRequests
NoRequest == 0
NoProvider == 0

\* ShowModalParams: modal is required, dismissible and data are optional.
ShowModalParamsType == [modal : Modals, dismissible : DismissibleOpts, data : DataOpts]

\* The descriptors the callers pass: every value of every field occurs.
ShowModalParams ==
  { [modal |-> "ModalA", dismissible |-> Undefined, data |-> Undefined],
    [modal |-> "ModalA", dismissible |-> "false",   data |-> "d1"],
    [modal |-> "ModalB", dismissible |-> "true",    data |-> "d2"] }

\* The argument lists a view may pass to onClose: onClose() or onClose(v).
CloseArgs == {<< >>} \cup {<<v>> : v \in Results}

\* The providers enclosing a consumer, nearest first.
Ancestors(c) ==
  CASE c = "outside" -> << >>
    [] c = "child1"  -> <<1>>
    [] c = "child2"  -> <<2, 1>>

VARIABLES
  renderModal,   \* per provider: the committed useState value (optional descriptor)
  pending,       \* per provider: the queued setRenderModal value, if any
  promiseRef,    \* per provider: promiseRef.current (NoRequest is null)
  view,          \* per provider: the props of the rendered dialog view, if any
  handed,        \* requests whose view has been given an onClose
  promise,       \* per request: the promise showModal returned
  reqProvider,   \* per request: the provider it was issued to
  nextReq,       \* number of the next showModal call
  resolveCalls,  \* per request: calls of its resolve callback (saturating)
  rejectCalls,   \* per request: calls of its reject callback (saturating)
  superseded,    \* requests that were pending when a later showModal came
  lastCall       \* the last call of useAsyncModal, showModal or onClose

vars == <<renderModal, pending, promiseRef, view, handed, promise, reqProvider,
          nextReq, resolveCalls, rejectCalls, superseded, lastCall>>

\* ---- promises -----------------------------------------------------------
Unborn == [state |-> "none", value |-> Undefined]
\* Variant: the promise is created already settled.
PendingPromise_Settled == [state |-> "fulfilled", value |-> Undefined]

PendingPromise == [state |-> "pending", value |-> Undefined]

\* Variant: the reject callback is the one called.
PromiseResolve_Reject(pr, v) ==
  IF pr.state = "pending" THEN [state |-> "rejected", value |-> v] ELSE pr

\* Calling the resolve callback of a promise: settles it once, then is a no-op.
PromiseResolve(pr, v) ==
  IF pr.state = "pending" THEN [state |-> "fulfilled", value |-> v] ELSE pr

Bump(n) == IF n < MaxCalls THEN n + 1 ELSE n

\* ---- the record of the last call ----------------------------------------
NoParams == [modal |-> "none", dismissible |-> Undefined, data |-> Undefined]

\* op: the operation; c: the calling consumer; p: the provider concerned;
\* req: the request created (show) or the handle found (close); by: the request
\* whose view invoked onClose; args: the arguments onClose was invoked with;
\* D: the descriptor passed to showModal; threw: whether the call threw.
Call(op, c, p, req, by, args, D, threw) ==
  [op |-> op, c |-> c, p |-> p, req |-> req, by |-> by, args |-> args,
   D |-> D, threw |-> threw]

\* ---- state after construction -------------------------------------------
Init ==
  /\ renderModal = [p \in Providers |-> << >>]
  /\ pending = [p \in Providers |-> << >>]
  /\ promiseRef = [p \in Providers |-> NoRequest]
  /\ view = [p \in Providers |-> << >>]
  /\ handed = {}
  /\ promise = [i \in Requests |-> Unborn]
  /\ reqProvider = [i \in Requests |-> NoProvider]
  /\ nextReq = 1
  /\ resolveCalls = [i \in Requests |-> 0]
  /\ rejectCalls = [i \in Requests |-> 0]
  /\ superseded = {}
  /\ lastCall = Call("init", "none", NoProvider, NoRequest, NoRequest, << >>,
                     NoParams, FALSE)

\* ---- useAsyncModal ------------------------------------------------------
\* Variant: the outermost enclosing provider is taken.
useContext_Outermost(c) ==
  IF Ancestors(c) = << >> THEN NoProvider ELSE Ancestors(c)[Len(Ancestors(c))]

\* useContext: the value of the nearest enclosing provider, else the default
\* (null).  The value of provider p is its memoised { showModal } object.
useContext(c) == IF Ancestors(c) = << >> THEN NoProvider ELSE Head(Ancestors(c))

\* The outcome of the hook for a consumer: it throws or returns the context.
useAsyncModalResult(c) ==
  LET context == useContext(c) IN
    IF context = NoProvider
      THEN [threw |-> TRUE, value |-> NoProvider]
      ELSE [threw |-> FALSE, value |-> context]

useAsyncModal(c) ==
  /\ lastCall' = Call("hook", c, useAsyncModalResult(c).value, NoRequest, NoRequest,
                      << >>, NoParams, useAsyncModalResult(c).threw)
  /\ UNCHANGED <<renderModal, pending, promiseRef, view, handed, promise,
                 reqProvider, nextReq, resolveCalls, rejectCalls, superseded>>

\* ---- showModal ----------------------------------------------------------
\* Variant: a queued reset to null wins over a value queued after it.
setRenderModal_NullSticky(p, v) ==
  IF pending[p] = << << >> >> THEN pending ELSE [pending EXCEPT ![p] = <<v>>]

\* Variant: a descriptor requested while one is held is not taken.
setRenderModal_KeepHeld(p, v) ==
  IF v # << >> /\ (IF pending[p] # << >> THEN pending[p][1] ELSE renderModal[p]) # << >>
    THEN pending
    ELSE [pending EXCEPT ![p] = <<v>>]

\* setRenderModal(v): useState queues the value; plain (non-functional) updates
\* queued before one render reduce to the last of them.
setRenderModal(p, v) == [pending EXCEPT ![p] = <<v>>]

\* The descriptor object as held by the provider; req tags its identity.
Held(i, D) ==
  [req |-> i, modal |-> D.modal, dismissible |-> D.dismissible, data |-> D.data]

\* Variant: the promise of the request being replaced is resolved.
NewPromise_SettlePrior(p, i) ==
  [j \in Requests |->
     IF j = i THEN PendingPromise
     ELSE IF j = promiseRef[p] THEN PromiseResolve(promise[j], Undefined)
     ELSE promise[j]]

\* new Promise(...): the promise of request i is created pending; no other
\* promise is touched.
NewPromise(p, i) == [promise EXCEPT ![i] = PendingPromise]

\* Consumer c calls the showModal it got from the hook.  The promise of the
\* async function is resolved with the promise created inside and follows it:
\* promise[i] stands for both.
showModal(c, D) ==
  /\ ~useAsyncModalResult(c).threw
  /\ nextReq <= MaxRequests
  /\ LET p == useAsyncModalResult(c).value
         i == nextReq
     IN /\ pending' = setRenderModal(p, <<Held(i, D)>>)
        /\ promise' = NewPromise(p, i)
        /\ promiseRef' = [promiseRef EXCEPT ![p] = i]
        /\ reqProvider' = [reqProvider EXCEPT ![i] = p]
        /\ superseded' = superseded \cup
             {j \in Requests : reqProvider[j] = p /\ promise[j].state = "pending"}
        /\ lastCall' = Call("show", "none", p, i, NoRequest, << >>, D, FALSE)
  /\ nextReq' = nextReq + 1
  /\ UNCHANGED <<renderModal, view, handed, resolveCalls, rejectCalls>>

\* ---- handleClose --------------------------------------------------------
\* Variant: the argument is dropped.
OptionalArg_Dropped(args) == Undefined

\* result?: R -- the parameter is undefined when the argument is omitted.
OptionalArg(args) == IF Len(args) = 0 THEN Undefined ELSE args[1]

\* Variant: one reference is shared by all provider instances.
ClearedRef_Shared(p) == [q \in Providers |-> NoRequest]

\* Variant: the reference is left as it is.
ClearedRef_Kept(p) == promiseRef

\* promiseRef.current = null
ClearedRef(p) == [promiseRef EXCEPT ![p] = NoRequest]

\* Variant: a call from a mounted view that is not dismissible is ignored.
handleClose_Enforced(p, by, args) ==
  /\ by \in handed
  /\ reqProvider[by] = p
  /\ LET result == OptionalArg(args)
         h == promiseRef[p]
         ignored == /\ view[p] # << >>
                    /\ view[p][1].req = by
                    /\ view[p][1].dismissible = "false"
     IN /\ IF h # NoRequest /\ ~ignored
             THEN /\ promise' = [promise EXCEPT ![h] = PromiseResolve(promise[h], result)]
                  /\ resolveCalls' = [resolveCalls EXCEPT ![h] = Bump(resolveCalls[h])]
             ELSE UNCHANGED <<promise, resolveCalls>>
        /\ promiseRef' = IF ignored THEN promiseRef ELSE ClearedRef(p)
        /\ pending' = IF ignored THEN pending ELSE setRenderModal(p, << >>)
        /\ lastCall' = Call("close", "none", p, h, by, args, NoParams, FALSE)
  /\ UNCHANGED <<renderModal, view, handed, reqProvider, nextReq,
                 rejectCalls, superseded>>

\* onClose invoked with args by the view that was rendered for request by
\* (mounted still, or holding on to the callback it was given).
handleClose(p, by, args) ==
  /\ by \in handed
  /\ reqProvider[by] = p
  /\ LET result == OptionalArg(args)
         h == promiseRef[p]
     IN /\ IF h # NoRequest
             THEN /\ promise' = [promise EXCEPT ![h] = PromiseResolve(promise[h], result)]
                  /\ resolveCalls' = [resolveCalls EXCEPT ![h] = Bump(resolveCalls[h])]
             ELSE UNCHANGED <<promise, resolveCalls>>
        /\ promiseRef' = ClearedRef(p)
        /\ pending' = setRenderModal(p, << >>)
        /\ lastCall' = Call("close", "none", p, h, by, args, NoParams, FALSE)
  /\ UNCHANGED <<renderModal, view, handed, reqProvider, nextReq,
                 rejectCalls, superseded>>

\* ---- rendering ----------------------------------------------------------
\* Variant: a || b
NullishCoalesce_Or(a, b) == IF a \in {Undefined, "false"} THEN b ELSE a

\* a ?? b
NullishCoalesce(a, b) == IF a = Undefined THEN b ELSE a

\* Variant: the data prop is not passed.
ModalElement_NoData(d) ==
  [req |-> d.req, modal |-> d.modal,
   dismissible |-> NullishCoalesce(d.dismissible, "true"),
   data |-> Undefined]

\* The props of the element rendered for a held descriptor.
ModalElement(d) ==
  [req |-> d.req, modal |-> d.modal,
   dismissible |-> NullishCoalesce(d.dismissible, "true"),
   data |-> d.data]

\* The dialog part of the provider's render output for a state value.
RenderOutput(state) == IF state # << >> THEN <<ModalElement(state[1])>> ELSE << >>

\* A render of provider p: the queued state value (if any) is committed and
\* the output is computed from the committed value.
Render(p) ==
  /\ LET state == IF pending[p] # << >> THEN pending[p][1] ELSE renderModal[p]
     IN /\ renderModal' = [renderModal EXCEPT ![p] = state]
        /\ view' = [view EXCEPT ![p] = RenderOutput(state)]
        /\ handed' = handed \cup {state[k].req : k \in 1..Len(state)}
  /\ pending' = [pending EXCEPT ![p] = << >>]
  /\ UNCHANGED <<promiseRef, promise, reqProvider, nextReq,
                 resolveCalls, rejectCalls, superseded, lastCall>>

\* ---- the program --------------------------------------------------------
Next ==
  \/ \E c \in Consumers : useAsyncModal(c)
  \/ \E c \in Consumers, D \in ShowModalParams : showModal(c, D)
  \/ \E p \in Providers, by \in Requests, args \in CloseArgs : handleClose(p, by, args)
  \/ \E p \in Providers : Render(p)

Spec == Init /\ [][Next]_vars

\* The state value the provider holds: the queued value once one is queued.
HeldState(p) == IF pending[p] # << >> THEN pending[p][1] ELSE renderModal[p]

TypeOK ==
  /\ \A p \in Providers : Len(renderModal[p]) <= 1 /\ Len(view[p]) <= 1
  /\ \A p \in Providers : promiseRef[p] \in 0..MaxRequests
  /\ nextReq \in 1..(MaxRequests + 1)
\* ---- claims -------------------------------------------------------------

\* C1: the promise of a showModal call is pending when the call returns, and
\* the only step that settles it is an onClose invocation by a rendered view:
\* a settling step is a handleClose call that found this request's handle, and
\* it is neither a showModal call nor a render.
C1_PendingUntilOnClose ==
  [][\A i \in Requests :
       /\ (promise[i].state = "none" /\ promise'[i].state # "none")
            => promise'[i].state = "pending"
       /\ (promise[i].state = "pending" /\ promise'[i].state # "pending")
            => /\ lastCall'.op = "close"
               /\ lastCall'.req = i
               /\ lastCall'.by \in handed
               /\ nextReq' = nextReq
               /\ renderModal' = renderModal
               /\ view' = view]_vars

\* A request whose view is rendered and whose promise is still pending.
C1_Witness ==
  \E i \in Requests :
    /\ promise[i].state = "pending"
    /\ reqProvider[i] # NoProvider
    /\ view[reqProvider[i]] # << >>
    /\ view[reqProvider[i]][1].req = i

\* C2: when the view of the current request invokes onClose(v) the promise of
\* that request is fulfilled with v, and with undefined when it invokes
\* onClose().
C2_ResolvedWithResult ==
  (lastCall.op = "close" /\ lastCall.req # NoRequest /\ lastCall.by = lastCall.req)
    => promise[lastCall.req] =
         [state |-> "fulfilled",
          value |-> IF lastCall.args = << >> THEN Undefined ELSE lastCall.args[1]]

\* The view of the current request has invoked onClose("ok").
C2_Witness ==
  /\ lastCall.op = "close"
  /\ lastCall.req # NoRequest
  /\ lastCall.by = lastCall.req
  /\ lastCall.args = <<"ok">>
  /\ promise[lastCall.req].value = "ok"

\* C3: after an onClose invocation, whether or not a handle existed, the
\* handle is null and the held state is empty, and once the provider has
\* rendered no dialog view is shown; this lasts until the next showModal.
C3_ClearedAfterClose ==
  lastCall.op = "close"
    => /\ promiseRef[lastCall.p] = NoRequest
       /\ HeldState(lastCall.p) = << >>
       /\ (pending[lastCall.p] = << >> => view[lastCall.p] = << >>)

\* onClose was invoked when no handle existed, and the provider has rendered.
C3_Witness ==
  /\ lastCall.op = "close"
  /\ lastCall.req = NoRequest
  /\ pending[lastCall.p] = << >>
  /\ view[lastCall.p] = << >>

C6_WaitsForPrevious ==
  \A p \in Providers :
    view[p] # << >>
      => \A j \in Requests :
           (j < view[p][1].req /\ reqProvider[j] = p) => promise[j].state = "fulfilled"

\* C7: useAsyncModal throws when no provider encloses the caller, and
\* otherwise returns, without throwing, the value of the nearest one.
C7_HookThrowsOutsideProvider ==
  lastCall.op = "hook"
    => IF Ancestors(lastCall.c) = << >>
         THEN lastCall.threw /\ lastCall.p = NoProvider
         ELSE ~lastCall.threw /\ lastCall.p = Ancestors(lastCall.c)[1]

\* The hook was called by a consumer no provider encloses.
C7_Witness ==
  /\ lastCall.op = "hook"
  /\ lastCall.c = "outside"
  /\ lastCall.threw

\* C8: the rendered view receives dismissible = true when the held descriptor
\* leaves it unset and the descriptor's own value when it sets it; the view
\* rendered after showModal(D) receives the value so derived from D.
C8_DismissibleDefault ==
  /\ \A p \in Providers :
       view[p] # << >>
         => /\ renderModal[p] # << >>
            /\ view[p][1].dismissible =
                 (IF renderModal[p][1].dismissible = Undefined
                    THEN "true" ELSE renderModal[p][1].dismissible)
  /\ (lastCall.op = "show" /\ pending[lastCall.p] = << >>)
       => /\ view[lastCall.p] # << >>
          /\ view[lastCall.p][1].dismissible =
               (IF lastCall.D.dismissible = Undefined
                  THEN "true" ELSE lastCall.D.dismissible)

\* The view of a descriptor with dismissible = false is rendered.
C8_Witness ==
  /\ lastCall.op = "show"
  /\ lastCall.D.dismissible = "false"
  /\ pending[lastCall.p] = << >>
  /\ view[lastCall.p] # << >>
  /\ view[lastCall.p][1].dismissible = "false"

\* C9: the rendered view receives the data of the held descriptor unchanged
\* (undefined when absent); the view rendered after a replacing showModal(D2)
\* is the view of D2 with the data of D2.
C9_DataPassedThrough ==
  /\ \A p \in Providers :
       view[p] # << >>
         => /\ renderModal[p] # << >>
            /\ view[p][1].data = renderModal[p][1].data
            /\ view[p][1].req = renderModal[p][1].req
  /\ (lastCall.op = "show" /\ pending[lastCall.p] = << >>)
       => /\ view[lastCall.p] # << >>
          /\ view[lastCall.p][1].req = lastCall.req
          /\ view[lastCall.p][1].data = lastCall.D.data

\* A descriptor with data "d2" replaced one whose view was rendered, and its
\* own view is rendered.
C9_Witness ==
  /\ lastCall.op = "show"
  /\ lastCall.D.data = "d2"
  /\ pending[lastCall.p] = << >>
  /\ view[lastCall.p] # << >>
  /\ view[lastCall.p][1].data = "d2"
  /\ \E j \in superseded \cap handed : reqProvider[j] = lastCall.p

\* C10: a promise is only settled by an onClose invocation of the view that
\* was rendered for the same request: an onClose invocation that finds a
\* handle is made by the view of the request the handle belongs to.
C10_OnCloseBoundToRequest ==
  (lastCall.op = "close" /\ lastCall.req # NoRequest) => lastCall.by = lastCall.req
\* C11: in every state a provider has a pending handle exactly when it holds
\* a descriptor (the value useState holds: the queued value until the next
\* render), and the handle is the handle of the held descriptor's request.
C11_HandleIffHeld ==
  \A p \in Providers :
    /\ (promiseRef[p] # NoRequest) <=> (HeldState(p) # << >>)
    /\ (promiseRef[p] # NoRequest) => HeldState(p)[1].req = promiseRef[p]

\* A handle and a held descriptor were created together by showModal when
\* the provider held nothing and rendered nothing.
C11_Witness ==
  \E p \in Providers :
    /\ promiseRef[p] # NoRequest
    /\ pending[p] # << >>
    /\ pending[p][1] # << >>
    /\ renderModal[p] = << >>
    /\ lastCall.op = "show"

\* C12: an onClose invocation that directly follows an onClose invocation on
\* the same provider finds no handle, calls no resolve callback, changes no
\* promise and leaves the handle null and the held state empty.
C12_CloseIdempotent ==
  [][(/\ lastCall.op = "close"
      /\ lastCall'.op = "close"
      /\ lastCall'.p = lastCall.p
      /\ pending'[lastCall.p] = << << >> >>
      /\ (lastCall' # lastCall \/ pending'[lastCall.p] # pending[lastCall.p]))
       => /\ lastCall'.req = NoRequest
          /\ promise' = promise
          /\ resolveCalls' = resolveCalls
          /\ promiseRef' = promiseRef
          /\ promiseRef'[lastCall.p] = NoRequest
          /\ HeldState(lastCall.p)' = << >>
          /\ HeldState(lastCall.p) = << >>]_vars

\* onClose was invoked again, with no handle left, by a view whose request
\* is already resolved, before the provider rendered.
C12_Witness ==
  /\ lastCall.op = "close"
  /\ lastCall.req = NoRequest
  /\ promise[lastCall.by].state = "fulfilled"
  /\ pending[lastCall.p] = << << >> >>
  /\ renderModal[lastCall.p] # << >>
\* C13: when the mounted view of the current request was rendered with
\* dismissible = false and invokes onClose, with or without a result, the
\* promise is fulfilled with the result (undefined when omitted), the handle
\* is null and the held state is empty, as for a dismissible view.
C13_DismissibleNotEnforced ==
  (/\ lastCall.op = "close"
   /\ lastCall.req # NoRequest
   /\ lastCall.by = lastCall.req
   /\ view[lastCall.p] # << >>
   /\ view[lastCall.p][1].req = lastCall.by
   /\ view[lastCall.p][1].dismissible = "false")
    => /\ promise[lastCall.req] =
            [state |-> "fulfilled",
             value |-> IF lastCall.args = << >> THEN Undefined ELSE lastCall.args[1]]
       /\ promiseRef[lastCall.p] = NoRequest
       /\ HeldState(lastCall.p) = << >>

\* A view rendered with dismissible = false has invoked onClose() with no
\* result and its promise is fulfilled with undefined.
C13_Witness ==
  /\ lastCall.op = "close"
  /\ lastCall.req # NoRequest
  /\ lastCall.by = lastCall.req
  /\ lastCall.args = << >>
  /\ view[lastCall.p] # << >>
  /\ view[lastCall.p][1].req = lastCall.by
  /\ view[lastCall.p][1].dismissible = "false"
  /\ promise[lastCall.req].state = "fulfilled"
\* What belongs to one provider instance: its state, its rendered view, its
\* handle and the promises of the requests issued to it.
ProviderState(q) ==
  <<renderModal[q], pending[q], promiseRef[q], view[q],
    [i \in Requests |-> IF reqProvider[i] = q THEN promise[i] ELSE Unborn]>>

\* C14: a step that changes anything belonging to one provider instance
\* changes nothing belonging to the other, and when the step is a showModal
\* or onClose call it is a call on the instance that changed.
C14_ProvidersIndependent ==
  [][\A q \in Providers :
       (ProviderState(q)' # ProviderState(q))
         => /\ \A r \in Providers \ {q} : ProviderState(r)' = ProviderState(r)
            /\ (lastCall' # lastCall => lastCall'.p = q)]_vars

\* onClose resolved a request of the nested provider while the enclosing
\* provider keeps its handle, its rendered view and its pending promise.
C14_Witness ==
  /\ lastCall.op = "close"
  /\ lastCall.p = 2
  /\ lastCall.req # NoRequest
  /\ promise[lastCall.req].state = "fulfilled"
  /\ promiseRef[1] # NoRequest
  /\ promise[promiseRef[1]].state = "pending"
  /\ view[1] # << >>
  /\ view[1][1].req = promiseRef[1]

C16_ResolvedAtMostOnce ==
  \A i \in Requests :
    /\ resolveCalls[i] <= 1
    /\ (resolveCalls[i] = 1) <=> (promise[i].state = "fulfilled")

\* The view of a request whose promise is resolved invoked onClose again
\* after the provider had rendered, and its resolve was still called once.
C16_Witness ==
  /\ lastCall.op = "close"
  /\ lastCall.req = NoRequest
  /\ resolveCalls[lastCall.by] = 1
  /\ renderModal[lastCall.p] = << >>
  /\ view[lastCall.p] = << >>

\* A request A of provider p was resolved before the request b was issued.
ChainedAfter(b, p) ==
  \E A \in Requests :
    /\ A < b
    /\ reqProvider[A] = p
    /\ promise[A].state = "fulfilled"
    /\ A \notin superseded

\* C17: a showModal(B) call that directly follows the onClose call that
\* resolved A on the same provider leaves A's promise as it is and makes B
\* the held descriptor with B's handle and a pending promise; B stays held,
\* is the view rendered next, and its own onClose fulfils its promise.
C17_SequentialChaining ==
  /\ [][(/\ lastCall.op = "close"
         /\ lastCall.req # NoRequest
         /\ nextReq' = nextReq + 1
         /\ lastCall'.p = lastCall.p)
          => /\ promise'[lastCall.req] = promise[lastCall.req]
             /\ promise'[nextReq].state = "pending"
             /\ promiseRef'[lastCall.p] = nextReq
             /\ HeldState(lastCall.p)' = <<Held(nextReq, lastCall'.D)>>]_vars
  /\ []((lastCall.op = "show" /\ ChainedAfter(lastCall.req, lastCall.p))
          => /\ promise[lastCall.req].state = "pending"
             /\ promiseRef[lastCall.p] = lastCall.req
             /\ HeldState(lastCall.p) = <<Held(lastCall.req, lastCall.D)>>
             /\ (pending[lastCall.p] = << >>
                   => /\ view[lastCall.p] # << >>
                      /\ view[lastCall.p][1].req = lastCall.req))
  /\ []((/\ lastCall.op = "close"
         /\ lastCall.req # NoRequest
         /\ lastCall.by = lastCall.req
         /\ ChainedAfter(lastCall.req, lastCall.p))
          => promise[lastCall.req] =
               [state |-> "fulfilled",
                value |-> IF lastCall.args = << >> THEN Undefined
                          ELSE lastCall.args[1]])

\* B was requested after A was resolved on the same provider, B's view was
\* rendered and B's own onClose has fulfilled B's promise.
C17_Witness ==
  /\ lastCall.op = "close"
  /\ lastCall.req # NoRequest
  /\ lastCall.by = lastCall.req
  /\ ChainedAfter(lastCall.req, lastCall.p)
  /\ promise[lastCall.req] = [state |-> "fulfilled", value |-> "ok"]
  /\ superseded = {}
====
